---------------------------- MODULE Spec2Model ----------------------------
(***************************************************************************)
(* A model of the trust algebra of aur-trust: the Trust order and its      *)
(* meet, TrustVerdict and its meet, the two evidence evaluators            *)
(* (check_commit_signature, check_maintainers), the trust database and the *)
(* combinator (combined_verdict, check_trust).                             *)
(*                                                                         *)
(* A Rust String is modelled as the sequence of its UTF-8 bytes, so that   *)
(* format!, String's Ord (used by Vec::sort) and substring containment are *)
(* computed as the code computes them.                                     *)
(***************************************************************************)
EXTENDS Integers, Sequences, FiniteSets, TLC

VARIABLES
    ta, tb, tc,     \* Trust operands (quickcheck's left, right and a third)
    tglb,           \* results of Trust::meet on the operands
    l, r, c,        \* TrustVerdict operands
    glb,            \* results of TrustVerdict::meet on the operands
    trustdb,        \* TrustDatabase.trusted_maintainers
    package,        \* PackageWithEvidence
    verdict,        \* the verdict returned by the last evaluator call
    given,          \* the verdicts given to combined_verdict
    consumed,       \* how many of them its fold has taken
    folded,         \* the accumulator of its fold
    pc              \* the operation that has been applied ("start": none)

vars ==
    <<ta, tb, tc, tglb, l, r, c, glb, trustdb, package, verdict,
      given, consumed, folded, pc>>

---------------------------------------------------------------------------
(* Bounds of the input domains.                                            *)

\* The longest reason list of an arbitrary verdict operand.
MaxReasons == 2

\* The number of reasons three operands of an associativity check share.
MaxTotalReasons == 4

\* The number of distinct maintainer identifiers.
MaxMaintainers == 3

\* The longest list of verdicts given to combined_verdict.
MaxVerdicts == 3

\* The number of reasons the verdicts of such a list share.
MaxFoldReasons == 2

---------------------------------------------------------------------------
(* Strings.                                                                *)

\* The comparison of two Strings: lexicographic on bytes, a proper prefix
\* being smaller.
RECURSIVE StrLe(_, _)
StrLe(x, y) ==
    IF x = <<>> THEN TRUE
    ELSE IF y = <<>> THEN FALSE
    ELSE IF x[1] < y[1] THEN TRUE
    ELSE IF x[1] > y[1] THEN FALSE
    ELSE StrLe(Tail(x), Tail(y))

\* Insertion of x into the sorted list s, after the elements equal to it.
RECURSIVE Insert(_, _)
Insert(x, s) ==
    IF s = <<>> THEN <<x>>
    ELSE IF StrLe(s[1], x) THEN <<s[1]>> \o Insert(x, Tail(s))
    ELSE <<x>> \o s

\* sort forgetting to order: the list is left as concatenated.
sort_left_as_is(v) == v

\* Vec<String>::sort: a stable sort by String's Ord.
RECURSIVE sort(_)
sort(v) ==
    IF v = <<>> THEN <<>>
    ELSE Insert(v[Len(v)], sort(SubSeq(v, 1, Len(v) - 1)))

---------------------------------------------------------------------------
(* Trust (src/trust/types.rs).                                             *)

Untrusted == 0
Trusted == 1
Indeterminate == 2

Trust == {Untrusted, Trusted, Indeterminate}

\* HasBottom for Trust
Trust_bottom == Untrusted

\* Default for Trust
Trust_default == Indeterminate

\* The upper bound instead of the lower bound.
Trust_join(self, other) == IF self >= other THEN self ELSE other

\* MeetSemiLattice for Trust: self.min(other)
Trust_meet(self, other) == IF self <= other THEN self ELSE other

---------------------------------------------------------------------------
(* TrustVerdict (src/trust/types.rs).                                      *)

\* Default for TrustVerdict
TrustVerdict_default == [trust |-> Indeterminate, reasons |-> <<>>]

set_trust(self, trust) == [self EXCEPT !.trust = trust]

add_reason(self, reason) == [self EXCEPT !.reasons = Append(@, reason)]

TrustVerdict_trusted == set_trust(TrustVerdict_default, Trusted)

TrustVerdict_untrusted == set_trust(TrustVerdict_default, Untrusted)

\* meet that keeps the reasons of self whatever its trust.
meet_keeps_self(self, other) ==
    LET trust == Trust_meet(self.trust, other.trust)
        reasons == self.reasons
                   \o (IF other.trust = trust THEN other.reasons ELSE <<>>)
    IN  [trust |-> trust, reasons |-> sort(reasons)]

\* meet that drops the reasons of self whatever its trust.
meet_drops_self(self, other) ==
    LET trust == Trust_meet(self.trust, other.trust)
        reasons == IF other.trust = trust THEN other.reasons ELSE <<>>
    IN  [trust |-> trust, reasons |-> sort(reasons)]

\* The set of elements of a sequence.
Elems(s) == {s[i] : i \in 1..Len(s)}

\* The sequence s without the repetitions of its elements.
RECURSIVE Dedup(_)
Dedup(s) ==
    IF s = <<>> THEN <<>>
    ELSE LET init == Dedup(SubSeq(s, 1, Len(s) - 1))
         IN  IF s[Len(s)] \in Elems(init) THEN init
             ELSE Append(init, s[Len(s)])

\* meet that removes duplicate reasons after sorting.
meet_dedup(self, other) ==
    LET trust == Trust_meet(self.trust, other.trust)
        reasons == (IF self.trust = trust THEN self.reasons ELSE <<>>)
                   \o (IF other.trust = trust THEN other.reasons ELSE <<>>)
    IN  [trust |-> trust, reasons |-> Dedup(sort(reasons))]

\* MeetSemiLattice for TrustVerdict
meet(self, other) ==
    LET trust == Trust_meet(self.trust, other.trust)
        reasons == (IF self.trust = trust THEN self.reasons ELSE <<>>)
                   \o (IF other.trust = trust THEN other.reasons ELSE <<>>)
    IN  [trust |-> trust, reasons |-> sort(reasons)]

---------------------------------------------------------------------------
(* Evidence (src/trust.rs).                                                *)

SignatureValidity ==
    {"Good", "Bad", "UnknownValidity", "ExpiredSignature", "ExpiredKey",
     "RevokedKey"}

\* An Option<T> is the empty sequence (None) or a one-element sequence.
None == <<>>
Some(x) == <<x>>

CommitSignature(validity, signer, key) ==
    [validity |-> validity, signer |-> signer, key |-> key]

GitCommit(abbrev_sha1, signature) ==
    [abbrev_sha1 |-> abbrev_sha1, signature |-> signature]

\* A HashSet<String> of maintainers is kept as the sequence of its members
\* in the order the set enumerates them; trustdb is only asked for
\* membership and is kept as a set.
PackageWithEvidence(name, maintainers, head_commit) ==
    [name |-> name, maintainers |-> maintainers, head_commit |-> head_commit]

\* Default for TrustDatabase
TrustDatabase_default == {}

set_trusted_maintainers(self, maintainers) == maintainers

trust_maintainer(self, maintainer) == self \cup {maintainer}

\* The reasons check_commit_signature formats.
reason_no_signature(sha) ==
    <<72, 69, 65, 68, 32, 99, 111, 109, 109, 105, 116, 32>> \o sha \o <<32, 104, 97, 115, 32, 110, 111, 32, 115, 105, 103, 110, 97, 116, 117, 114, 101>>

reason_good(sha, signer, key) ==
    <<72, 69, 65, 68, 32, 99, 111, 109, 109, 105, 116, 32>> \o sha \o <<32, 115, 105, 103, 110, 101, 100, 32, 98, 121, 32>> \o signer
    \o <<32, 119, 105, 116, 104, 32, 107, 101, 121, 32>> \o key

reason_bad(sha) ==
    <<72, 69, 65, 68, 32, 99, 111, 109, 109, 105, 116, 32>> \o sha \o <<32, 104, 97, 100, 32, 98, 97, 100, 32, 115, 105, 103, 110, 97, 116, 117, 114, 101>>

reason_unknown_validity(sha, signer, key) ==
    <<86, 97, 108, 105, 100, 105, 116, 121, 32, 111, 102, 32, 115, 105, 103, 110, 97, 116, 117, 114, 101, 32, 111, 102, 32>> \o signer \o <<32, 119, 105, 116, 104, 32, 107, 101, 121, 32>> \o key
    \o <<32, 111, 110, 32, 72, 69, 65, 68, 32, 99, 111, 109, 109, 105, 116, 32>> \o sha \o <<32, 105, 115, 32, 110, 111, 116, 32, 107, 110, 111, 119, 110>>

reason_expired_signature(sha, signer, key) ==
    <<83, 105, 103, 110, 97, 116, 117, 114, 101, 32, 111, 102, 32>> \o signer \o <<32, 119, 105, 116, 104, 32, 107, 101, 121, 32>> \o key
    \o <<32, 111, 110, 32, 72, 69, 65, 68, 32, 99, 111, 109, 109, 105, 116, 32>> \o sha \o <<32, 105, 115, 32, 101, 120, 112, 105, 114, 101, 100>>

reason_expired_key(sha, signer, key) ==
    <<83, 105, 103, 110, 97, 116, 117, 114, 101, 32, 111, 102, 32>> \o signer \o <<32, 111, 110, 32, 72, 69, 65, 68, 32, 99, 111, 109, 109, 105, 116, 32>> \o sha
    \o <<32, 119, 97, 115, 32, 109, 97, 100, 101, 32, 119, 105, 116, 104, 32, 101, 120, 112, 105, 114, 101, 100, 32, 107, 101, 121, 32>> \o key

reason_revoked_key(sha, signer, key) ==
    <<83, 105, 103, 110, 97, 116, 117, 114, 101, 32, 111, 102, 32>> \o signer \o <<32, 111, 110, 32, 72, 69, 65, 68, 32, 99, 111, 109, 109, 105, 116, 32>> \o sha
    \o <<32, 119, 97, 115, 32, 109, 97, 100, 101, 32, 119, 105, 116, 104, 32, 114, 101, 118, 111, 107, 101, 100, 32, 107, 101, 121, 32>> \o key

\* check_commit_signature taking a signature of unknown validity for good.
check_commit_signature_unknown_is_good(commit) ==
    LET sha == commit.abbrev_sha1 IN
    IF commit.signature = None
    THEN add_reason(TrustVerdict_default, reason_no_signature(sha))
    ELSE LET signature == commit.signature[1]
             signer == signature.signer
             key == signature.key
         IN  CASE signature.validity \in {"Good", "UnknownValidity"} ->
                    add_reason(TrustVerdict_trusted,
                               reason_good(sha, signer, key))
               [] signature.validity = "Bad" ->
                    add_reason(TrustVerdict_untrusted, reason_bad(sha))
               [] signature.validity = "ExpiredSignature" ->
                    add_reason(TrustVerdict_untrusted,
                               reason_expired_signature(sha, signer, key))
               [] signature.validity = "ExpiredKey" ->
                    add_reason(TrustVerdict_untrusted,
                               reason_expired_key(sha, signer, key))
               [] signature.validity = "RevokedKey" ->
                    add_reason(TrustVerdict_untrusted,
                               reason_revoked_key(sha, signer, key))

check_commit_signature(commit) ==
    LET sha == commit.abbrev_sha1 IN
    IF commit.signature = None
    THEN add_reason(TrustVerdict_default, reason_no_signature(sha))
    ELSE LET signature == commit.signature[1]
             signer == signature.signer
             key == signature.key
         IN  CASE signature.validity = "Good" ->
                    add_reason(TrustVerdict_trusted,
                               reason_good(sha, signer, key))
               [] signature.validity = "Bad" ->
                    add_reason(TrustVerdict_untrusted, reason_bad(sha))
               [] signature.validity = "UnknownValidity" ->
                    add_reason(TrustVerdict_untrusted,
                               reason_unknown_validity(sha, signer, key))
               [] signature.validity = "ExpiredSignature" ->
                    add_reason(TrustVerdict_untrusted,
                               reason_expired_signature(sha, signer, key))
               [] signature.validity = "ExpiredKey" ->
                    add_reason(TrustVerdict_untrusted,
                               reason_expired_key(sha, signer, key))
               [] signature.validity = "RevokedKey" ->
                    add_reason(TrustVerdict_untrusted,
                               reason_revoked_key(sha, signer, key))

\* The reasons check_maintainers gives.
reason_maintainers_unknown == <<77, 97, 105, 110, 116, 97, 105, 110, 101, 114, 115, 32, 117, 110, 107, 110, 111, 119, 110>>

reason_all_maintainers_trusted == <<65, 108, 108, 32, 109, 97, 105, 110, 116, 97, 105, 110, 101, 114, 115, 32, 116, 114, 117, 115, 116, 101, 100>>

reason_not_trusted(maintainer) ==
    <<77, 97, 105, 110, 116, 97, 105, 110, 101, 114, 32>> \o maintainer \o <<32, 105, 115, 32, 110, 111, 116, 32, 116, 114, 117, 115, 116, 101, 100>>

\* HashSet::is_subset
is_subset(maintainers, trusted_maintainers) ==
    \A i \in 1..Len(maintainers) : maintainers[i] \in trusted_maintainers

\* HashSet::difference: the members of maintainers that are not trusted, in
\* the order maintainers enumerates them.
RECURSIVE difference(_, _)
difference(maintainers, trusted_maintainers) ==
    IF maintainers = <<>> THEN <<>>
    ELSE (IF Head(maintainers) \in trusted_maintainers
          THEN <<>> ELSE <<Head(maintainers)>>)
         \o difference(Tail(maintainers), trusted_maintainers)

\* The fold of check_maintainers: one reason per maintainer, onto verdict.
RECURSIVE fold_not_trusted(_, _)
fold_not_trusted(verdict0, untrusted) ==
    IF untrusted = <<>> THEN verdict0
    ELSE fold_not_trusted(
             add_reason(verdict0, reason_not_trusted(Head(untrusted))),
             Tail(untrusted))

\* check_maintainers without the check for an empty set of maintainers.
check_maintainers_no_empty_check(db, maintainers) ==
    IF is_subset(maintainers, db)
    THEN add_reason(set_trust(TrustVerdict_default, Trusted),
                    reason_all_maintainers_trusted)
    ELSE fold_not_trusted(TrustVerdict_default, difference(maintainers, db))

\* check_maintainers giving a reason for every maintainer, trusted or not.
check_maintainers_blames_all(db, maintainers) ==
    IF maintainers = <<>>
    THEN add_reason(TrustVerdict_default, reason_maintainers_unknown)
    ELSE IF is_subset(maintainers, db)
         THEN add_reason(set_trust(TrustVerdict_default, Trusted),
                         reason_all_maintainers_trusted)
         ELSE fold_not_trusted(TrustVerdict_default, maintainers)

check_maintainers(db, maintainers) ==
    IF maintainers = <<>>
    THEN add_reason(TrustVerdict_default, reason_maintainers_unknown)
    ELSE IF is_subset(maintainers, db)
         THEN add_reason(set_trust(TrustVerdict_default, Trusted),
                         reason_all_maintainers_trusted)
         ELSE fold_not_trusted(TrustVerdict_default,
                               difference(maintainers, db))

\* The fold of combined_verdict: meet of acc with each verdict in turn.
RECURSIVE fold_meet(_, _)
fold_meet(acc, verdicts) ==
    IF verdicts = <<>> THEN acc
    ELSE fold_meet(meet(acc, Head(verdicts)), Tail(verdicts))

\* combined_verdict folding from the bottom verdict instead of the default.
combined_verdict_from_untrusted(verdicts) ==
    fold_meet(TrustVerdict_untrusted, verdicts)

combined_verdict(verdicts) == fold_meet(TrustVerdict_default, verdicts)

check_trust(db, pkg) ==
    LET commit_verdict == check_commit_signature(pkg.head_commit)
        maintainer_verdict == check_maintainers(db, pkg.maintainers)
    IN  combined_verdict(<<commit_verdict, maintainer_verdict>>)

---------------------------------------------------------------------------
(* The input domains.                                                      *)

R_a == <<97>>
R_ab == <<97, 98>>
R_b == <<98>>

\* The reason strings of arbitrary verdicts: "a" < "ab" < "b".
ReasonPool == {R_a, R_ab, R_b}

SeqsUpTo(S, n) == UNION {[1..k -> S] : k \in 0..n}

\* The verdicts quickcheck's Arbitrary for TrustVerdict draws: any trust
\* with any list of reasons, unsorted and with duplicates.
Verdicts == [trust : Trust, reasons : SeqsUpTo(ReasonPool, MaxReasons)]

\* The maintainer identifiers: those of the tests, then "m4", "m5", ...
MaintainerId(i) ==
    CASE i = 1 -> <<102, 111, 111>>
      [] i = 2 -> <<98, 97, 114>>
      [] i = 3 -> <<115, 112, 97, 109>>
      [] OTHER -> <<109, 48 + i>>

MaintainerIds == {MaintainerId(i) : i \in 1..MaxMaintainers}

\* The orders in which a HashSet holding the members of S may enumerate.
Enumerations(S) ==
    {e \in [1..Cardinality(S) -> S] :
        \A i, j \in 1..Cardinality(S) : i # j => e[i] # e[j]}

MaintainerSets == UNION {Enumerations(S) : S \in SUBSET MaintainerIds}

Hashes == {<<100, 54, 50, 101, 56, 56, 56>>, <<48, 97, 49, 98, 50, 99, 51>>}

Signers == {<<74, 97, 110, 101, 32, 68, 111, 101, 32, 60, 106, 46, 100, 111, 101, 64, 101, 120, 97, 109, 112, 108, 101, 46, 99, 111, 109, 62>>, <<66, 111, 98>>}

Keys == {<<83, 72, 65, 50, 53, 54, 58, 120, 66, 85, 114, 113, 105, 105, 89, 83>>}

Signatures ==
    {None} \cup
    {Some(CommitSignature(v, s, k)) :
        v \in SignatureValidity, s \in Signers, k \in Keys}

Commits == {GitCommit(h, s) : h \in Hashes, s \in Signatures}

Packages ==
    {PackageWithEvidence(<<97, 117, 114, 45, 116, 114, 117, 115, 116>>, m, h) :
        m \in MaintainerSets, h \in Commits}

\* The package of a behaviour that evaluates no package.
NoPackage ==
    PackageWithEvidence(<<97, 117, 114, 45, 116, 114, 117, 115, 116>>, <<>>, GitCommit(<<100, 54, 50, 101, 56, 56, 56>>, None))

---------------------------------------------------------------------------
(* Spec: the evaluation of a package against a trust database.             *)

Init ==
    /\ trustdb = TrustDatabase_default
    /\ package \in Packages
    /\ verdict = TrustVerdict_default
    /\ ta = Trust_default /\ tb = Trust_default /\ tc = Trust_default
    /\ tglb = <<>>
    /\ given = <<>> /\ consumed = 0 /\ folded = TrustVerdict_default
    /\ l = TrustVerdict_default
    /\ r = TrustVerdict_default
    /\ c = TrustVerdict_default
    /\ glb = <<>>
    /\ pc = "start"

TrustMaintainer ==
    /\ pc = "start"
    /\ \E m \in MaintainerIds : trustdb' = trust_maintainer(trustdb, m)
    /\ UNCHANGED <<given, consumed, folded>>
    /\ UNCHANGED <<ta, tb, tc, tglb, l, r, c, glb, package, verdict, pc>>

SetTrustedMaintainers ==
    /\ pc = "start"
    /\ \E S \in SUBSET MaintainerIds :
          trustdb' = set_trusted_maintainers(trustdb, S)
    /\ UNCHANGED <<given, consumed, folded>>
    /\ UNCHANGED <<ta, tb, tc, tglb, l, r, c, glb, package, verdict, pc>>

CheckCommitSignature ==
    /\ pc = "start"
    /\ verdict' = check_commit_signature(package.head_commit)
    /\ pc' = "check_commit_signature"
    /\ UNCHANGED <<given, consumed, folded>>
    /\ UNCHANGED <<ta, tb, tc, tglb, l, r, c, glb, trustdb, package>>

CheckMaintainers ==
    /\ pc = "start"
    /\ verdict' = check_maintainers(trustdb, package.maintainers)
    /\ pc' = "check_maintainers"
    /\ UNCHANGED <<given, consumed, folded>>
    /\ UNCHANGED <<ta, tb, tc, tglb, l, r, c, glb, trustdb, package>>

CheckTrust ==
    /\ pc = "start"
    /\ verdict' = check_trust(trustdb, package)
    /\ pc' = "check_trust"
    /\ UNCHANGED <<given, consumed, folded>>
    /\ UNCHANGED <<ta, tb, tc, tglb, l, r, c, glb, trustdb, package>>

Next ==
    \/ TrustMaintainer
    \/ SetTrustedMaintainers
    \/ CheckCommitSignature
    \/ CheckMaintainers
    \/ CheckTrust

Spec == Init /\ [][Next]_vars

---------------------------------------------------------------------------
(* SpecTrust: Trust::meet on every triple of Trust values.                 *)

InitTrust ==
    /\ ta \in Trust /\ tb \in Trust /\ tc \in Trust
    /\ tglb = <<>>
    /\ given = <<>> /\ consumed = 0 /\ folded = TrustVerdict_default
    /\ l = TrustVerdict_default
    /\ r = TrustVerdict_default
    /\ c = TrustVerdict_default
    /\ glb = <<>>
    /\ trustdb = TrustDatabase_default
    /\ package = NoPackage
    /\ verdict = TrustVerdict_default
    /\ pc = "start"

TrustMeetCommutative ==
    /\ pc = "start"
    /\ tglb' = <<Trust_meet(ta, tb), Trust_meet(tb, ta)>>
    /\ pc' = "trust_commutative"
    /\ UNCHANGED <<given, consumed, folded>>
    /\ UNCHANGED <<ta, tb, tc, l, r, c, glb, trustdb, package, verdict>>

TrustMeetAssociative ==
    /\ pc = "start"
    /\ tglb' = <<Trust_meet(Trust_meet(ta, tb), tc),
                 Trust_meet(ta, Trust_meet(tb, tc))>>
    /\ pc' = "trust_associative"
    /\ UNCHANGED <<given, consumed, folded>>
    /\ UNCHANGED <<ta, tb, tc, l, r, c, glb, trustdb, package, verdict>>

TrustMeetIdempotent ==
    /\ pc = "start"
    /\ tglb' = <<Trust_meet(ta, ta)>>
    /\ pc' = "trust_idempotent"
    /\ UNCHANGED <<given, consumed, folded>>
    /\ UNCHANGED <<ta, tb, tc, l, r, c, glb, trustdb, package, verdict>>

TrustMeetBottom ==
    /\ pc = "start"
    /\ tglb' = <<Trust_meet(ta, Trust_bottom)>>
    /\ pc' = "trust_bottom"
    /\ UNCHANGED <<given, consumed, folded>>
    /\ UNCHANGED <<ta, tb, tc, l, r, c, glb, trustdb, package, verdict>>

TrustMeetLowerBound ==
    /\ pc = "start"
    /\ tglb' = <<Trust_meet(ta, tb)>>
    /\ pc' = "trust_lower_bound"
    /\ UNCHANGED <<given, consumed, folded>>
    /\ UNCHANGED <<ta, tb, tc, l, r, c, glb, trustdb, package, verdict>>

NextTrust ==
    \/ TrustMeetCommutative
    \/ TrustMeetAssociative
    \/ TrustMeetIdempotent
    \/ TrustMeetBottom
    \/ TrustMeetLowerBound

SpecTrust == InitTrust /\ [][NextTrust]_vars

---------------------------------------------------------------------------
(* SpecMeet: TrustVerdict::meet on every pair of verdicts.                 *)

InitMeet ==
    /\ l \in Verdicts /\ r \in Verdicts
    /\ c = TrustVerdict_default
    /\ glb = <<>>
    /\ ta = Trust_default /\ tb = Trust_default /\ tc = Trust_default
    /\ tglb = <<>>
    /\ given = <<>> /\ consumed = 0 /\ folded = TrustVerdict_default
    /\ trustdb = TrustDatabase_default
    /\ package = NoPackage
    /\ verdict = TrustVerdict_default
    /\ pc = "start"

MeetLowerBound ==
    /\ pc = "start"
    /\ glb' = <<meet(l, r)>>
    /\ pc' = "lower_bound"
    /\ UNCHANGED <<given, consumed, folded>>
    /\ UNCHANGED <<ta, tb, tc, tglb, l, r, c, trustdb, package, verdict>>

MeetCommutative ==
    /\ pc = "start"
    /\ glb' = <<meet(l, r), meet(r, l)>>
    /\ pc' = "commutative"
    /\ UNCHANGED <<given, consumed, folded>>
    /\ UNCHANGED <<ta, tb, tc, tglb, l, r, c, trustdb, package, verdict>>

MeetIdempotent ==
    /\ pc = "start"
    /\ glb' = <<meet(l, l)>>
    /\ pc' = "idempotent"
    /\ UNCHANGED <<given, consumed, folded>>
    /\ UNCHANGED <<ta, tb, tc, tglb, l, r, c, trustdb, package, verdict>>

NextMeet ==
    \/ MeetLowerBound
    \/ MeetCommutative
    \/ MeetIdempotent

SpecMeet == InitMeet /\ [][NextMeet]_vars

---------------------------------------------------------------------------
(* SpecAssoc: TrustVerdict::meet on triples of verdicts that share at most *)
(* MaxTotalReasons reasons.                                                *)

InitAssoc ==
    /\ \E w \in SeqsUpTo(ReasonPool, MaxTotalReasons) :
       \E i \in 0..Len(w) :
       \E j \in i..Len(w) :
          /\ l \in [trust : Trust, reasons : {SubSeq(w, 1, i)}]
          /\ r \in [trust : Trust, reasons : {SubSeq(w, i + 1, j)}]
          /\ c \in [trust : Trust, reasons : {SubSeq(w, j + 1, Len(w))}]
    /\ glb = <<>>
    /\ ta = Trust_default /\ tb = Trust_default /\ tc = Trust_default
    /\ tglb = <<>>
    /\ given = <<>> /\ consumed = 0 /\ folded = TrustVerdict_default
    /\ trustdb = TrustDatabase_default
    /\ package = NoPackage
    /\ verdict = TrustVerdict_default
    /\ pc = "start"

\* The inner meets of the two bracketings.
MeetInner ==
    /\ pc = "start"
    /\ glb' = <<meet(l, r), meet(r, c)>>
    /\ pc' = "inner"
    /\ UNCHANGED <<given, consumed, folded>>
    /\ UNCHANGED <<ta, tb, tc, tglb, l, r, c, trustdb, package, verdict>>

\* The outer meets: meet(meet(l, r), c) and meet(l, meet(r, c)).
MeetOuter ==
    /\ pc = "inner"
    /\ glb' = <<meet(glb[1], c), meet(l, glb[2])>>
    /\ pc' = "associative"
    /\ UNCHANGED <<given, consumed, folded>>
    /\ UNCHANGED <<ta, tb, tc, tglb, l, r, c, trustdb, package, verdict>>

NextAssoc ==
    \/ MeetInner
    \/ MeetOuter

SpecAssoc == InitAssoc /\ [][NextAssoc]_vars

---------------------------------------------------------------------------
(* Properties of Trust::meet and TrustVerdict::meet.                       *)

\* The number of occurrences of s in the list v.
RECURSIVE Count(_, _)
Count(s, v) ==
    IF v = <<>> THEN 0
    ELSE (IF Head(v) = s THEN 1 ELSE 0) + Count(s, Tail(v))

\* The list v is in non-decreasing order.
IsSorted(v) == \A i \in 1..(Len(v) - 1) : StrLe(v[i], v[i + 1])

\* The reasons operand v contributes to a meet whose trust is t.
Contribution(v, t) == IF v.trust = t THEN v.reasons ELSE <<>>

\* C1: meet(l, r) has the trust Trust::meet(l.trust, r.trust), and its
\* reasons are, in sorted order, exactly the multiset of the reasons of the
\* operands whose trust equals that trust: nothing of an operand with a
\* greater trust is carried over and nothing is invented.
C1_MeetLowerBound ==
    pc = "lower_bound" =>
        LET g == glb[1]
            t == IF l.trust <= r.trust THEN l.trust ELSE r.trust
        IN  /\ g.trust = t
            /\ IsSorted(g.reasons)
            /\ \A s \in ReasonPool \cup Elems(g.reasons) :
                  Count(s, g.reasons)
                      = Count(s, Contribution(l, t))
                        + Count(s, Contribution(r, t))

\* C1 witness: l is Trusted with the unsorted reasons "b", "a", r is
\* Indeterminate with a reason; the meet keeps "a", "b" and drops r's.
C1_Witness ==
    /\ pc = "lower_bound"
    /\ l = [trust |-> Trusted, reasons |-> <<R_b, R_a>>]
    /\ r = [trust |-> Indeterminate, reasons |-> <<R_ab>>]
    /\ glb[1] = [trust |-> Trusted, reasons |-> <<R_a, R_b>>]

\* C2: meet is commutative: meet(l, r) and meet(r, l) have the same trust
\* and the same reasons, element by element, for unsorted and duplicated
\* reason lists too.
C2_MeetCommutative ==
    pc = "commutative" => glb[1] = glb[2]

\* C2 witness: both operands have the combined trust, and the
\* concatenations "b", "a", "a" and "a", "a", "b" differ before sorting.
C2_Witness ==
    /\ pc = "commutative"
    /\ l.trust = r.trust
    /\ l.reasons = <<R_b, R_a>>
    /\ r.reasons = <<R_a>>
    /\ glb[1].reasons = <<R_a, R_a, R_b>>
    /\ glb[2].reasons = <<R_a, R_a, R_b>>

\* C3 as stated: a reason of l (of r) appears in meet(l, r) if and only if
\* l.trust (r.trust) equals the trust of the meet.
C3_ReasonIffOwnTrust ==
    pc = "lower_bound" =>
        LET g == glb[1]
        IN  /\ \A s \in Elems(l.reasons) :
                  s \in Elems(g.reasons) <=> l.trust = g.trust
            /\ \A s \in Elems(r.reasons) :
                  s \in Elems(g.reasons) <=> r.trust = g.trust

\* C3, amended: every reason of l appears in meet(l, r) if l.trust equals the
\* trust of the meet; when l.trust is greater, a reason of l appears in the
\* meet if and only if it is also a reason of r; and symmetrically for r.
C3_ReasonIffContributed ==
    pc = "lower_bound" =>
        LET g == glb[1]
        IN  /\ \A s \in Elems(l.reasons) :
                  s \in Elems(g.reasons)
                      <=> (l.trust = g.trust \/ s \in Elems(r.reasons))
            /\ \A s \in Elems(r.reasons) :
                  s \in Elems(g.reasons)
                      <=> (r.trust = g.trust \/ s \in Elems(l.reasons))

\* C3 witness: l has a greater trust than r and shares the reason "a" with
\* it; "a" is in the meet, l's other reason "b" is not.
C3_Witness ==
    /\ pc = "lower_bound"
    /\ l = [trust |-> Indeterminate, reasons |-> <<R_a, R_b>>]
    /\ r = [trust |-> Untrusted, reasons |-> <<R_a>>]
    /\ glb[1] = [trust |-> Untrusted, reasons |-> <<R_a>>]

\* C4: meet is associative: meet(meet(l, r), c) and meet(l, meet(r, c)) have
\* the same trust and the same reasons, element by element.
C4_MeetAssociative ==
    pc = "associative" => glb[1] = glb[2]

\* C4 witness: l and c have the combined trust, r a greater one; both
\* bracketings keep the reasons of l and c, sorted, and drop r's.
C4_Witness ==
    /\ pc = "associative"
    /\ l = [trust |-> Untrusted, reasons |-> <<R_b>>]
    /\ r = [trust |-> Trusted, reasons |-> <<R_ab>>]
    /\ c = [trust |-> Untrusted, reasons |-> <<R_a>>]
    /\ glb[1] = [trust |-> Untrusted, reasons |-> <<R_a, R_b>>]
    /\ glb[2] = glb[1]

\* C5: meet(l, l) has the trust of l and every reason twice as often as l
\* has it; and meet(l, r) has as many reasons as the operands whose trust
\* equals the combined trust have together.
C5_MeetKeepsDuplicates ==
    /\ pc = "idempotent" =>
          LET g == glb[1]
          IN  /\ g.trust = l.trust
              /\ \A s \in ReasonPool \cup Elems(g.reasons) :
                    Count(s, g.reasons) = 2 * Count(s, l.reasons)
    /\ pc = "lower_bound" =>
          LET g == glb[1]
          IN  Len(g.reasons)
                  = Len(Contribution(l, g.trust))
                    + Len(Contribution(r, g.trust))

\* C5 witness: l already holds "a" twice; meet(l, l) holds it four times.
C5_Witness ==
    /\ pc = "idempotent"
    /\ l.reasons = <<R_a, R_a>>
    /\ glb[1].reasons = <<R_a, R_a, R_a, R_a>>

\* C6: Trust::meet is the greatest lower bound in the order
\* Untrusted < Trusted < Indeterminate: it is commutative, associative and
\* idempotent, below both operands and above every other lower bound, and
\* Untrusted, the bottom, is absorbing.
C6_TrustMeetLaws ==
    /\ Untrusted < Trusted /\ Trusted < Indeterminate
    /\ pc = "trust_commutative" => tglb[1] = tglb[2]
    /\ pc = "trust_associative" => tglb[1] = tglb[2]
    /\ pc = "trust_idempotent" => tglb[1] = ta
    /\ pc = "trust_bottom" => tglb[1] = Untrusted
    /\ pc = "trust_lower_bound" =>
          /\ tglb[1] <= ta /\ tglb[1] <= tb
          /\ \A x \in Trust : (x <= ta /\ x <= tb) => x <= tglb[1]

\* C6 witness: the meet of Indeterminate and Trusted is Trusted.
C6_Witness ==
    /\ pc = "trust_lower_bound"
    /\ ta = Indeterminate /\ tb = Trusted
    /\ tglb[1] = Trusted

---------------------------------------------------------------------------
(* Properties of the evaluators and of check_trust.                        *)

\* pat occurs in the string s as a contiguous substring.
Contains(s, pat) ==
    \E i \in 0..(Len(s) - Len(pat)) : SubSeq(s, i + 1, i + Len(pat)) = pat

\* The set of the members of the package's maintainer set.
Maintainers == Elems(package.maintainers)

\* C7: check_commit_signature returns Indeterminate for an unsigned commit;
\* for a signed commit it returns Trusted if and only if the validity is
\* Good, and Untrusted for every other validity; the verdict always has
\* exactly one reason, which contains the abbreviated hash of the commit.
C7_CommitSignatureExhaustive ==
    pc = "check_commit_signature" =>
        LET commit == package.head_commit
            validity == commit.signature[1].validity
        IN  /\ verdict.trust \in Trust
            /\ Len(verdict.reasons) = 1
            /\ Contains(verdict.reasons[1], commit.abbrev_sha1)
            /\ commit.signature = None => verdict.trust = Indeterminate
            /\ commit.signature # None =>
                  /\ verdict.trust = Trusted <=> validity = "Good"
                  /\ validity \in {"Bad", "UnknownValidity",
                                   "ExpiredSignature", "ExpiredKey",
                                   "RevokedKey"}
                        => verdict.trust = Untrusted

\* C7 witness: a signature of unknown validity gives Untrusted, with the
\* one reason naming the commit d62e888.
C7_Witness ==
    /\ pc = "check_commit_signature"
    /\ package.head_commit.abbrev_sha1 = <<100, 54, 50, 101, 56, 56, 56>>
    /\ package.head_commit.signature # None
    /\ package.head_commit.signature[1].validity = "UnknownValidity"
    /\ verdict.trust = Untrusted
    /\ Len(verdict.reasons) = 1
    /\ Contains(verdict.reasons[1], <<72, 69, 65, 68, 32, 99, 111, 109, 109, 105, 116, 32, 100, 54, 50, 101, 56, 56, 56>>)

\* C8: check_maintainers never returns Untrusted; no maintainers give
\* Indeterminate with the reason "Maintainers unknown"; maintainers that are
\* all in the database give Trusted with the reason "All maintainers
\* trusted"; otherwise the verdict is Indeterminate with exactly one reason
\* "Maintainer <id> is not trusted" per maintainer that is not in the
\* database and none for a maintainer that is.
C8_MaintainersThreeCases ==
    pc = "check_maintainers" =>
        /\ verdict.trust # Untrusted
        /\ Maintainers = {} =>
              verdict = [trust |-> Indeterminate,
                         reasons |-> <<<<77, 97, 105, 110, 116, 97, 105, 110, 101, 114, 115, 32, 117, 110, 107, 110, 111, 119, 110>>>>]
        /\ (Maintainers # {} /\ Maintainers \subseteq trustdb) =>
              verdict = [trust |-> Trusted,
                         reasons |-> <<<<65, 108, 108, 32, 109, 97, 105, 110, 116, 97, 105, 110, 101, 114, 115, 32, 116, 114, 117, 115, 116, 101, 100>>>>]
        /\ (Maintainers # {} /\ ~(Maintainers \subseteq trustdb)) =>
              /\ verdict.trust = Indeterminate
              /\ Len(verdict.reasons) = Cardinality(Maintainers \ trustdb)
              /\ \A m \in Maintainers :
                    Count(<<77, 97, 105, 110, 116, 97, 105, 110, 101, 114, 32>> \o m \o <<32, 105, 115, 32, 110, 111, 116, 32, 116, 114, 117, 115, 116, 101, 100>>,
                          verdict.reasons)
                        = IF m \in trustdb THEN 0 ELSE 1

\* C8 witness: the database {foo} and the maintainers {foo, bar} give the
\* reasons ["Maintainer bar is not trusted"].
C8_Witness ==
    /\ pc = "check_maintainers"
    /\ trustdb = {<<102, 111, 111>>}
    /\ Maintainers = {<<102, 111, 111>>, <<98, 97, 114>>}
    /\ verdict = [trust |-> Indeterminate,
                  reasons |-> <<<<77, 97, 105, 110, 116, 97, 105, 110, 101, 114, 32, 98, 97, 114, 32, 105, 115, 32, 110, 111, 116, 32, 116, 114, 117, 115, 116, 101, 100>>>>]

\* C9 as stated: check_maintainers returns Trusted if and only if all
\* maintainers are in the database, and Indeterminate otherwise.
C9_TrustedIffSubset ==
    pc = "check_maintainers" =>
        /\ verdict.trust = Trusted <=> Maintainers \subseteq trustdb
        /\ verdict.trust # Trusted => verdict.trust = Indeterminate

\* C9, amended: check_maintainers returns Trusted if and only if the package
\* has at least one maintainer and all its maintainers are in the database,
\* and Indeterminate otherwise.
C9_TrustedIffNonEmptySubset ==
    pc = "check_maintainers" =>
        /\ verdict.trust = Trusted
              <=> (Maintainers # {} /\ Maintainers \subseteq trustdb)
        /\ verdict.trust # Trusted => verdict.trust = Indeterminate

\* C9 witness: a package without maintainers is Indeterminate although the
\* database trusts a maintainer.
C9_Witness ==
    /\ pc = "check_maintainers"
    /\ Maintainers = {}
    /\ trustdb = {<<102, 111, 111>>}
    /\ verdict.trust = Indeterminate

---------------------------------------------------------------------------
(* Properties of the combined verdict of check_trust.                      *)

\* The verdicts of the two evaluators on the package of the state.
CommitVerdict == check_commit_signature(package.head_commit)

MaintainerVerdict == check_maintainers(trustdb, package.maintainers)

\* The head commit is signed with a signature of the validity v.
SignedWith(v) ==
    /\ package.head_commit.signature # None
    /\ package.head_commit.signature[1].validity = v

Unsigned == package.head_commit.signature = None

MaintainersTrusted == Maintainers # {} /\ Maintainers \subseteq trustdb

\* v lists exactly the members of w, as often as w does.
SameMultiset(v, w) ==
    /\ Len(v) = Len(w)
    /\ \A s \in Elems(v) \cup Elems(w) : Count(s, v) = Count(s, w)

C12_SignatureDominates ==
    pc = "check_trust" =>
        /\ verdict.trust = Untrusted
              <=> (~Unsigned /\ ~SignedWith("Good"))
        /\ verdict.trust = Untrusted =>
              /\ verdict.reasons = CommitVerdict.reasons
              /\ Len(verdict.reasons) = 1
              /\ Contains(verdict.reasons[1], package.head_commit.abbrev_sha1)
              /\ \A s \in Elems(verdict.reasons) :
                    /\ s # <<65, 108, 108, 32, 109, 97, 105, 110, 116, 97, 105, 110, 101, 114, 115, 32, 116, 114, 117, 115, 116, 101, 100>>
                    /\ s # <<77, 97, 105, 110, 116, 97, 105, 110, 101, 114, 115, 32, 117, 110, 107, 110, 111, 119, 110>>
                    /\ ~Contains(s, <<32, 105, 115, 32, 110, 111, 116, 32, 116, 114, 117, 115, 116, 101, 100>>)

\* C12 witness: a revoked key on a package whose maintainers are all
\* trusted: Untrusted, with the reason of the revoked key only.
C12_Witness ==
    /\ pc = "check_trust"
    /\ SignedWith("RevokedKey")
    /\ MaintainersTrusted
    /\ verdict.trust = Untrusted
    /\ Len(verdict.reasons) = 1
    /\ Contains(verdict.reasons[1], <<32, 119, 97, 115, 32, 109, 97, 100, 101, 32, 119, 105, 116, 104, 32, 114, 101, 118, 111, 107, 101, 100, 32, 107, 101, 121, 32>>)

---------------------------------------------------------------------------
(* SpecFold: combined_verdict on lists of at most MaxVerdicts verdicts     *)
(* that share at most MaxFoldReasons reasons, one step of its fold at a    *)
(* time.                                                                   *)

\* The ways to cut a list of m reasons into n consecutive pieces.
Cuts(n, m) ==
    {f \in [0..n -> 0..m] :
        /\ f[0] = 0
        /\ f[n] = m
        /\ \A k \in 1..n : f[k - 1] <= f[k]}

\* The list of n verdicts with the trusts t whose reasons are the pieces
\* into which f cuts w.
VerdictList(n, t, w, f) ==
    [k \in 1..n |->
        [trust |-> t[k], reasons |-> SubSeq(w, f[k - 1] + 1, f[k])]]

InitFold ==
    /\ \E n \in 0..MaxVerdicts :
       \E w \in SeqsUpTo(ReasonPool, MaxFoldReasons) :
       \E t \in [1..n -> Trust] :
       \E f \in Cuts(n, Len(w)) :
          given = VerdictList(n, t, w, f)
    /\ consumed = 0
    /\ folded = TrustVerdict_default
    /\ verdict = TrustVerdict_default
    /\ ta = Trust_default /\ tb = Trust_default /\ tc = Trust_default
    /\ tglb = <<>>
    /\ l = TrustVerdict_default
    /\ r = TrustVerdict_default
    /\ c = TrustVerdict_default
    /\ glb = <<>>
    /\ trustdb = TrustDatabase_default
    /\ package = NoPackage
    /\ pc = "fold"

\* One step of the fold: |l, r| l.meet(r) on the next verdict.
FoldStep ==
    /\ pc = "fold"
    /\ consumed < Len(given)
    /\ folded' = meet(folded, given[consumed + 1])
    /\ consumed' = consumed + 1
    /\ UNCHANGED <<ta, tb, tc, tglb, l, r, c, glb, trustdb, package>>
    /\ UNCHANGED <<verdict, given, pc>>

\* The list is exhausted: combined_verdict returns the accumulator.
FoldReturn ==
    /\ pc = "fold"
    /\ consumed = Len(given)
    /\ verdict' = folded
    /\ pc' = "combined_verdict"
    /\ UNCHANGED <<ta, tb, tc, tglb, l, r, c, glb, trustdb, package>>
    /\ UNCHANGED <<given, consumed, folded>>

NextFold ==
    \/ FoldStep
    \/ FoldReturn

SpecFold == InitFold /\ [][NextFold]_vars

\* The least trust among the verdicts the fold has taken.
LeastConsumed ==
    IF \E i \in 1..consumed : given[i].trust = Untrusted THEN Untrusted
    ELSE IF \E i \in 1..consumed : given[i].trust = Trusted THEN Trusted
    ELSE Indeterminate

\* The reasons of those of the first k verdicts that have the trust t.
RECURSIVE ReasonsAt(_, _)
ReasonsAt(k, t) ==
    IF k = 0 THEN <<>>
    ELSE ReasonsAt(k - 1, t) \o Contribution(given[k], t)

---------------------------------------------------------------------------
(* The order in which the set of maintainers enumerates.                   *)

\* The package of the state with its maintainers enumerated as e.
Reenumerated(e) == [package EXCEPT !.maintainers = e]

NotTrusted(m) == m \notin trustdb

\* The maintainers that are not in the database, in the order the set
\* enumerates them.
UntrustedInOrder == SelectSeq(package.maintainers, NotTrusted)

\* C16: the verdict of check_trust, trust and reasons in their order, is the
\* same for every order in which the same set of maintainers enumerates,
\* for the same database and head commit; check_maintainers alone gives its
\* "Maintainer <id> is not trusted" reasons in the order of enumeration.
C16_EnumerationOrder ==
    /\ pc = "check_trust" =>
          \A e \in Enumerations(Maintainers) :
              check_trust(trustdb, Reenumerated(e)) = verdict
    /\ (pc = "check_maintainers" /\ UntrustedInOrder # <<>>) =>
          verdict.reasons
              = [k \in 1..Len(UntrustedInOrder) |->
                    <<77, 97, 105, 110, 116, 97, 105, 110, 101, 114, 32>> \o UntrustedInOrder[k]
                    \o <<32, 105, 115, 32, 110, 111, 116, 32, 116, 114, 117, 115, 116, 101, 100>>]

\* C16 witness: the untrusted maintainers spam and bar of an unsigned
\* commit: enumerated as bar, spam check_maintainers gives another verdict
\* than enumerated as spam, bar, and check_trust gives the same.
C16_Witness ==
    /\ pc = "check_trust"
    /\ Unsigned
    /\ trustdb = {<<102, 111, 111>>}
    /\ package.maintainers = <<<<115, 112, 97, 109>>, <<98, 97, 114>>>>
    /\ LET e == <<<<98, 97, 114>>, <<115, 112, 97, 109>>>>
       IN  /\ e \in Enumerations(Maintainers)
           /\ check_maintainers(trustdb, e).reasons
                 = <<<<77, 97, 105, 110, 116, 97, 105, 110, 101, 114, 32, 98, 97, 114, 32, 105, 115, 32, 110, 111, 116, 32, 116, 114, 117, 115, 116, 101, 100>>,
                     <<77, 97, 105, 110, 116, 97, 105, 110, 101, 114, 32, 115, 112, 97, 109, 32, 105, 115, 32, 110, 111, 116, 32, 116, 114, 117, 115, 116, 101, 100>>>>
           /\ check_maintainers(trustdb, package.maintainers).reasons
                 = <<<<77, 97, 105, 110, 116, 97, 105, 110, 101, 114, 32, 115, 112, 97, 109, 32, 105, 115, 32, 110, 111, 116, 32, 116, 114, 117, 115, 116, 101, 100>>,
                     <<77, 97, 105, 110, 116, 97, 105, 110, 101, 114, 32, 98, 97, 114, 32, 105, 115, 32, 110, 111, 116, 32, 116, 114, 117, 115, 116, 101, 100>>>>
           /\ check_trust(trustdb, Reenumerated(e)) = verdict
    /\ Len(verdict.reasons) = 3

=============================================================================
